---------------------------- MODULE Spec2Model ----------------------------
(***************************************************************************)
(* Model of the HttpClient facade of AT-HttpClient (httpClient.ts).        *)
(*                                                                         *)
(* A facade wraps an axios instance, registers one request and one         *)
(* response interceptor on it, and offers seven verb methods that resolve  *)
(* the headers (injecting a bearer token when a token resolver is          *)
(* configured) before delegating to the axios instance.                    *)
(*                                                                         *)
(* JavaScript values are represented as follows.                           *)
(*   - a header mapping is a set of <<name, value>> pairs, one per name;   *)
(*   - an optional boolean option is one of "undefined", "true", "false";  *)
(*   - a uuid is a value no other invocation of uuid.v4() returns: the     *)
(*     pair of the call and of the handler that asked for it; the empty    *)
(*     string / undefined request id is NoId;                              *)
(*   - an Error is a record of its message, of where it was created, and   *)
(*     of the requestId found on error.config / error.request.config.      *)
(***************************************************************************)
EXTENDS Naturals, Sequences, FiniteSets

\* ------------------------------------------------------------------ bounds

\* number of calls issued in one behaviour
MaxCalls == 2

\* ---------------------------------------------------------------- universe

Facades == {"A", "B"}

\* the pre-built axios instance a caller may hand to the constructor
Prebuilt == "P"

ClientIds == Facades \cup {Prebuilt}

Verbs == {"get", "post", "put", "patch", "delete", "head", "options"}

Operations == Verbs \cup {"createHeadersWithResolvedToken"}

Urls == {"", "https://api.example/x"}

Tokens == {"abc", "xyz"}

NoId == <<>>

\* header mappings the caller puts into a per-call config
HeaderInputs ==
    { {},
      {<<"Accept", "json">>},
      {<<"Authorization", "">>},
      {<<"Authorization", "Bearer z">>, <<"Accept", "json">>} }

\* a per-call config object: headers may be undefined
ConfigInputs ==
    { [headersDefined |-> FALSE, headers |-> {}] }
    \cup { [headersDefined |-> TRUE, headers |-> h] : h \in HeaderInputs }

\* --------------------------------------------------------------- constants

invalidToken == "Invalid token"

ConflictMessage ==
    "Authorization header already specified, please create a new HttpClient with a different (or without a) tokenResolver"

MissingUrlMessage == "HttpClient Error: \"url\" must be defined"

\* messages of the failures the transport (adapter) may produce
TransportMessages == {invalidToken, "Network Error"}

\* message of the failure the token resolver may produce
ResolverMessages == {invalidToken}

\* ------------------------------------------------------------ header maps

HasKey(h, k) == \E p \in h : p[1] = k

\* h[k]; the caller checks HasKey first
Get(h, k) == (CHOOSE p \in h : p[1] = k)[2]

\* JavaScript truthiness of headers.Authorization: undefined and '' are falsy
AuthorizationTruthy(h) ==
    HasKey(h, "Authorization") /\ Get(h, "Authorization") # ""

\* the spread left out: only the Authorization entry is returned
WithToken_Dropping(h, token) == { <<"Authorization", "Bearer " \o token>> }

\* { ...headers, Authorization: `Bearer ${token}` }
WithToken(h, token) ==
    { p \in h : p[1] # "Authorization" }
    \cup { <<"Authorization", "Bearer " \o token>> }

\* ------------------------------------------------------------------ errors

NoError == [message |-> "", origin |-> "none", requestId |-> NoId]

\* new Error(message) thrown by this layer: no config, no request
NewError(m) == [message |-> m, origin |-> "HttpClient", requestId |-> NoId]

\* the rejection of the token resolver
ResolverError(m) == [message |-> m, origin |-> "tokenResolver", requestId |-> NoId]

\* an axios error of the transport: error.config is the request config, on
\* which nothing of this layer ever stores a requestId
TransportError(m) == [message |-> m, origin |-> "transport", requestId |-> NoId]

\* the rejection caught and raised again as new Error(message)
TokenFailure_Normalized(e) == NewError(e.message)

\* what `await this.tokenResolverFunction()` raises inside the verb method
TokenFailure(e) == e

\* error?.config?.requestId ?? error?.request?.config?.requestId
ErrorRequestId(e) == e.requestId

\* ------------------------------------------------------------ construction

\* options?.enableCache ?? false
OrFalse(o) == IF o = "undefined" THEN "false" ELSE o

\* the two enhancers applied in the other order
AdapterChain_RetryInside(enableCache, enableRetry) ==
    <<"base">>
    \o (IF enableRetry = "true" THEN <<"retry">> ELSE <<>>)
    \o (IF enableCache = "true" THEN <<"cache">> ELSE <<>>)

\* the adapter the constructor builds, innermost first
AdapterChain(enableCache, enableRetry) ==
    <<"base">>
    \o (IF enableCache = "true" THEN <<"cache">> ELSE <<>>)
    \o (IF enableRetry = "true" THEN <<"retry">> ELSE <<>>)

\* options?.client ?? axios.create(...): the id of the instance used
ClientOf(f, opts) == IF opts.client = "undefined" THEN f ELSE opts.client

\* the pair of interceptors registered twice
RegisterInterceptors_Twice(registered, f) == Append(Append(registered, f), f)

\* interceptors.request.use / interceptors.response.use: one pair more
RegisterInterceptors(registered, f) == Append(registered, f)

Options ==
    [client : {"undefined", Prebuilt},
     tokenResolver : {"undefined", "fn"},
     enableCache : {"undefined", "true", "false"},
     enableRetry : {"undefined", "true", "false"}]

\* the options used where the adapter flags are left at their defaults
PlainOptions == { o \in Options : o.enableCache = "undefined" /\ o.enableRetry = "undefined" }

NotBuilt ==
    [built |-> FALSE, opts |-> [client |-> "undefined", tokenResolver |-> "undefined",
                                enableCache |-> "undefined", enableRetry |-> "undefined"],
     tokenResolverFunction |-> "undefined", enableCache |-> "false",
     enableRetry |-> "false", client |-> Prebuilt]

\* ------------------------------------------------------------------- state

VARIABLES
    facades,     \* facade id -> the fields of the HttpClient object
    clients,     \* axios instance id -> its adapter and registered interceptors
    requestId,   \* the module-level `let requestId`
    cfg0,        \* the caller's reusable config object as the caller made it
    cfg,         \* the caller's reusable config object now
    calls        \* call number -> the state of that asynchronous call, until
                 \* the caller has taken its outcome

vars == <<facades, clients, requestId, cfg0, cfg, calls>>

CallIds == 1..MaxCalls

IdleCall ==
    [pc |-> "idle", f |-> "A", op |-> "get", url |-> "", useCfg |-> FALSE,
     h |-> {}, token |-> "", hdrs |-> {}, resolved |-> FALSE,
     chain |-> <<>>, idx |-> 0, st |-> "pending", err |-> NoError,
     ev |-> <<>>, rejection |-> NoError,
     resolverCalls |-> 0, clientCalls |-> 0, netCalls |-> 0]

Init ==
    /\ facades = [f \in Facades |-> NotBuilt]
    /\ clients = [c \in ClientIds |->
                    [adapter |-> IF c = Prebuilt THEN <<"custom">> ELSE <<>>,
                     interceptors |-> <<>>]]
    /\ requestId = NoId
    /\ cfg0 \in ConfigInputs
    /\ cfg = cfg0
    /\ calls = [c \in CallIds |-> IdleCall]

\* constructor(options)
Construct(f, opts) ==
    /\ ~facades[f].built
    /\ f = "B" => facades["A"].built
    /\ LET cl == ClientOf(f, opts)
           ec == OrFalse(opts.enableCache)
           er == OrFalse(opts.enableRetry)
       IN /\ facades' = [facades EXCEPT ![f] =
                 [built |-> TRUE, opts |-> opts,
                  tokenResolverFunction |-> opts.tokenResolver,
                  enableCache |-> ec, enableRetry |-> er, client |-> cl]]
          /\ clients' = [clients EXCEPT ![cl] =
                 [adapter |-> IF opts.client = "undefined"
                              THEN AdapterChain(ec, er)
                              ELSE clients[cl].adapter,
                  interceptors |-> RegisterInterceptors(clients[cl].interceptors, f)]]
    /\ UNCHANGED <<requestId, cfg0, cfg, calls>>

NextCtor == \E f \in Facades, o \in Options : Construct(f, o)

SpecCtor == Init /\ [][NextCtor]_vars

\* ------------------------------------------------------------ verb methods

\* the config a verb method works on: the caller's object or the default
\* parameter value (which carries no headers)
ConfigArg(useCfg) ==
    IF useCfg THEN cfg ELSE [headersDefined |-> FALSE, headers |-> {}]

\* the default parameter `headers = {}` of createHeadersWithResolvedToken
HeadersArg(config) == IF config.headersDefined THEN config.headers ELSE {}

\* the synchronous part of createHeadersWithResolvedToken, up to its first
\* suspension: "throw" (conflict), "resolve" (the resolver is invoked and
\* awaited) or "return" (the headers are returned as they are)
CreateHeadersWithResolvedToken(tokenResolverFunction, headers) ==
    IF tokenResolverFunction # "undefined"
    THEN IF AuthorizationTruthy(headers) THEN "throw" ELSE "resolve"
    ELSE "return"

\* whether the verb method assigns the resolved headers to the caller's
\* config object (`config.headers = await ...`): every verb but get, which
\* builds a new object
AssignsConfigHeaders(op) == op \in Verbs \ {"get"}

\* the handlers a request runs through, in the order axios runs them:
\* request interceptors last-registered first, the dispatch, response
\* interceptors first-registered first
Reverse(s) == [i \in 1..Len(s) |-> s[Len(s) + 1 - i]]

\* the dispatch ahead of the request interceptors
HandlerChain_DispatchFirst(registered) ==
    <<[kind |-> "dispatch", f |-> ""]>>
    \o [i \in 1..Len(registered) |-> [kind |-> "request", f |-> Reverse(registered)[i]]]
    \o [i \in 1..Len(registered) |-> [kind |-> "response", f |-> registered[i]]]

HandlerChain(registered) ==
    [i \in 1..Len(registered) |-> [kind |-> "request", f |-> Reverse(registered)[i]]]
    \o <<[kind |-> "dispatch", f |-> ""]>>
    \o [i \in 1..Len(registered) |-> [kind |-> "response", f |-> registered[i]]]

\* a log event handed to a facade's logFunction, or the network call
LogEvent(handler, title, level, id, by, exception) ==
    [handler |-> handler, title |-> title, level |-> level, requestId |-> id,
     by |-> by, exception |-> exception]

\* the call of the adapter, recorded among the events of its request
NetworkCall == LogEvent("adapter", "network call", "", NoId, "", "")

\* async get/post/put/patch/delete/head/options and a direct call of
\* createHeadersWithResolvedToken, up to the first await
Start(c, f, op, url, useCfg) ==
    /\ calls[c].pc = "idle"
    /\ facades[f].built
    /\ LET headers == HeadersArg(ConfigArg(useCfg))
           how == CreateHeadersWithResolvedToken(facades[f].tokenResolverFunction, headers)
           begun == [calls[c] EXCEPT !.f = f, !.op = op, !.url = url,
                                     !.useCfg = useCfg, !.h = headers]
       IN calls' = [calls EXCEPT ![c] =
             CASE how = "throw" ->
                    [begun EXCEPT !.pc = "done", !.st = "rejected",
                                  !.err = NewError(ConflictMessage)]
               [] how = "resolve" ->
                    [begun EXCEPT !.pc = "awaitToken", !.resolverCalls = @ + 1]
               [] OTHER ->
                    [begun EXCEPT !.pc = "awaitHeaders"]]
    /\ UNCHANGED <<facades, clients, requestId, cfg0, cfg>>

\* the continuation of a verb method once the headers are there: the
\* assignment to config.headers (not in get) and the call of this.client.<verb>,
\* which fixes the handler chain of the request
Continue(c, token, headers) ==
    LET call == calls[c]
        sent == [call EXCEPT !.token = token, !.hdrs = headers, !.resolved = TRUE]
    IN IF call.op \notin Verbs
       THEN /\ calls' = [calls EXCEPT ![c] = [sent EXCEPT !.pc = "done", !.st = "fulfilled"]]
            /\ cfg' = cfg
       ELSE /\ calls' = [calls EXCEPT ![c] =
                  [sent EXCEPT !.pc = "chain", !.st = "fulfilled", !.idx = 1,
                               !.clientCalls = @ + 1,
                               !.chain = clients[facades[call.f].client].interceptors]]
            /\ cfg' = IF AssignsConfigHeaders(call.op) /\ call.useCfg
                      THEN [headersDefined |-> TRUE, headers |-> headers]
                      ELSE cfg

\* the token resolver fulfils with a token
TokenResolved(c, token) ==
    /\ calls[c].pc = "awaitToken"
    /\ Continue(c, token, WithToken(calls[c].h, token))
    /\ UNCHANGED <<facades, clients, requestId, cfg0>>

\* the token resolver rejects
TokenRejected(c, m) ==
    /\ calls[c].pc = "awaitToken"
    /\ calls' = [calls EXCEPT ![c] =
          [@ EXCEPT !.pc = "done", !.st = "rejected",
                    !.rejection = ResolverError(m),
                    !.err = TokenFailure(ResolverError(m))]]
    /\ UNCHANGED <<facades, clients, requestId, cfg0, cfg>>

\* no token resolver: createHeadersWithResolvedToken returned its argument
HeadersReturned(c) ==
    /\ calls[c].pc = "awaitHeaders"
    /\ Continue(c, "", calls[c].h)
    /\ UNCHANGED <<facades, clients, requestId, cfg0>>

\* ------------------------------------------------------------ interceptors

Handler(call) == HandlerChain(call.chain)[call.idx]

\* the request moves on to its next handler, or settles for the caller
Advance(call) ==
    IF call.idx = Len(HandlerChain(call.chain))
    THEN [call EXCEPT !.pc = "done"]
    ELSE [call EXCEPT !.idx = @ + 1]

\* the check of the url left out
UrlMissing_Never(url) == FALSE

\* if (!config.url)
UrlMissing(url) == url = ""

\* the message never compared with the sentinel
ResponseErrorTitle_Generic(message) == "HTTP Response Error"

\* the title the response interceptor logs a failure under
ResponseErrorTitle(message) ==
    IF message = invalidToken
    THEN "HTTP call skipped due to a token error"
    ELSE "HTTP Response Error"

\* throw new Error(error.message)
Rethrow(e) == NewError(e.message)

\* uuid.v4(), called by handler number i of call c
UuidV4(c, i) == <<c, i>>

\* request interceptor, fulfilled handler
RequestFulfilled(c) ==
    /\ calls[c].pc = "chain"
    /\ Handler(calls[c]).kind = "request"
    /\ calls[c].st = "fulfilled"
    /\ requestId' = UuidV4(c, calls[c].idx)
    /\ LET call == calls[c]
           logged == [call EXCEPT !.ev = Append(@,
                        LogEvent("request", "HTTP Request", "INFO", UuidV4(c, call.idx), Handler(call).f, ""))]
       IN calls' = [calls EXCEPT ![c] =
             IF UrlMissing(call.url)
             THEN Advance([logged EXCEPT !.st = "rejected",
                                         !.err = NewError(MissingUrlMessage)])
             ELSE Advance(logged)]
    /\ UNCHANGED <<facades, clients, cfg0, cfg>>

\* request interceptor, rejected handler
RequestRejected(c) ==
    /\ calls[c].pc = "chain"
    /\ Handler(calls[c]).kind = "request"
    /\ calls[c].st = "rejected"
    /\ LET call == calls[c]
       IN calls' = [calls EXCEPT ![c] =
             Advance([call EXCEPT
                !.ev = Append(@, LogEvent("requestError", "HTTP Request Error", "WARN",
                                  ErrorRequestId(call.err), Handler(call).f,
                                  call.err.message)),
                !.err = Rethrow(call.err)])]
    /\ UNCHANGED <<facades, clients, requestId, cfg0, cfg>>

\* dispatchRequest: the adapter is called, unless the request was rejected
\* on its way, in which case the rejection is passed on
Dispatch(c) ==
    /\ calls[c].pc = "chain"
    /\ Handler(calls[c]).kind = "dispatch"
    /\ LET call == calls[c]
       IN calls' = [calls EXCEPT ![c] =
             IF call.st = "fulfilled"
             THEN [call EXCEPT !.pc = "inflight", !.netCalls = @ + 1,
                               !.ev = Append(@, NetworkCall)]
             ELSE Advance(call)]
    /\ UNCHANGED <<facades, clients, requestId, cfg0, cfg>>

\* the adapter answers
TransportSucceeds(c) ==
    /\ calls[c].pc = "inflight"
    /\ calls' = [calls EXCEPT ![c] = Advance([@ EXCEPT !.pc = "chain"])]
    /\ UNCHANGED <<facades, clients, requestId, cfg0, cfg>>

\* the adapter fails
TransportFails(c, m) ==
    /\ calls[c].pc = "inflight"
    /\ calls' = [calls EXCEPT ![c] =
          Advance([@ EXCEPT !.pc = "chain", !.st = "rejected",
                            !.err = TransportError(m)])]
    /\ UNCHANGED <<facades, clients, requestId, cfg0, cfg>>

\* response interceptor, fulfilled handler: (response) => response
ResponseFulfilled(c) ==
    /\ calls[c].pc = "chain"
    /\ Handler(calls[c]).kind = "response"
    /\ calls[c].st = "fulfilled"
    /\ calls' = [calls EXCEPT ![c] = Advance(@)]
    /\ UNCHANGED <<facades, clients, requestId, cfg0, cfg>>

\* response interceptor, rejected handler
ResponseRejected(c) ==
    /\ calls[c].pc = "chain"
    /\ Handler(calls[c]).kind = "response"
    /\ calls[c].st = "rejected"
    /\ LET call == calls[c]
       IN calls' = [calls EXCEPT ![c] =
             Advance([call EXCEPT
                !.ev = Append(@, LogEvent("responseError", ResponseErrorTitle(call.err.message), "INFO",
                                  ErrorRequestId(call.err), Handler(call).f,
                                  call.err.message)),
                !.err = Rethrow(call.err)])]
    /\ UNCHANGED <<facades, clients, requestId, cfg0, cfg>>

\* the promise of the call settles for the caller, who takes the outcome
Settle(c) ==
    /\ calls[c].pc = "done"
    /\ calls' = [calls EXCEPT ![c] = [IdleCall EXCEPT !.pc = "settled"]]
    /\ UNCHANGED <<facades, clients, requestId, cfg0, cfg>>

\* the steps of a call that is under way
Step(c) ==
    \/ \E t \in Tokens : TokenResolved(c, t)
    \/ \E m \in ResolverMessages : TokenRejected(c, m)
    \/ HeadersReturned(c)
    \/ RequestFulfilled(c)
    \/ RequestRejected(c)
    \/ Dispatch(c)
    \/ TransportSucceeds(c)
    \/ \E m \in TransportMessages : TransportFails(c, m)
    \/ ResponseFulfilled(c)
    \/ ResponseRejected(c)
    \/ Settle(c)

\* calls are issued in the order of their numbers
Earlier(c, pcs) == \A d \in CallIds : d < c => calls[d].pc \in pcs

\* The caller awaits every call before issuing the next (the usage the
\* README shows); facades are constructed at any time.
Next ==
    \/ \E f \in Facades, o \in PlainOptions : Construct(f, o)
    \/ \E c \in CallIds, f \in Facades, op \in Operations, url \in Urls, useCfg \in BOOLEAN :
          Earlier(c, {"settled"}) /\ Start(c, f, op, url, useCfg)
    \/ \E c \in CallIds : Step(c)

Spec == Init /\ [][Next]_vars

\* Calls are issued without awaiting the earlier ones, so that several are
\* in flight at once.
ParOperations == {"get", "post"}

NextPar ==
    \/ \E f \in Facades, o \in PlainOptions : Construct(f, o)
    \/ \E c \in CallIds, f \in Facades, op \in ParOperations, url \in Urls :
          Earlier(c, {"awaitToken", "awaitHeaders", "chain", "inflight", "done", "settled"})
          /\ Start(c, f, op, url, TRUE)
    \/ \E c \in CallIds : Step(c)

SpecPar == Init /\ [][NextPar]_vars

\* ------------------------------------------------------------------ claims

\* a call that was issued and whose outcome the caller has not yet taken
Live(c) == calls[c].pc \notin {"idle", "settled"}

HasResolver(c) == facades[calls[c].f].tokenResolverFunction # "undefined"

\* the number of events of call c that the given handlers produced
Count(c, handlers) ==
    Cardinality({ i \in DOMAIN calls[c].ev : calls[c].ev[i].handler \in handlers })

\* the number of facades whose interceptors the request of call c runs through
Sharing(c) == Cardinality({ calls[c].chain[i] : i \in DOMAIN calls[c].chain })

\* the number of response handlers the request of call c has passed
ResponsesPassed(c) ==
    LET n == Len(calls[c].chain)
    IN IF calls[c].pc = "done" /\ calls[c].clientCalls > 0 THEN n
       ELSE IF calls[c].pc = "chain" /\ calls[c].idx > n + 2 THEN calls[c].idx - (n + 2)
       ELSE 0

\* C1 (as claimed): with a token resolver configured, a call whose headers
\* contain an Authorization key, whatever its value, has failed with the
\* configuration-conflict error, the transport client was not called and
\* the token resolver was not invoked.
C1_Claim ==
    \A c \in CallIds :
        (Live(c) /\ HasResolver(c) /\ HasKey(calls[c].h, "Authorization")) =>
            /\ calls[c].pc = "done"
            /\ calls[c].st = "rejected"
            /\ calls[c].err = NewError(ConflictMessage)
            /\ calls[c].clientCalls = 0
            /\ calls[c].netCalls = 0
            /\ calls[c].resolverCalls = 0

\* C2: without a token resolver the resolved headers are the headers given,
\* nothing is invoked and the resolution does not fail; with a token
\* resolver and no Authorization key among the headers given, the resolver
\* is invoked exactly once and the resolved headers are the headers given
\* plus exactly one entry, Authorization: Bearer <the token resolved>.
C2_Theorem ==
    \A c \in CallIds :
        Live(c) =>
            /\ ~HasResolver(c) =>
                  /\ calls[c].resolverCalls = 0
                  /\ calls[c].resolved => calls[c].hdrs = calls[c].h
                  /\ calls[c].pc = "done" => calls[c].resolved
            /\ (HasResolver(c) /\ ~HasKey(calls[c].h, "Authorization")) =>
                  /\ calls[c].resolverCalls = 1
                  /\ calls[c].resolved =>
                        /\ calls[c].token \in Tokens
                        /\ <<"Authorization", "Bearer " \o calls[c].token>> \in calls[c].hdrs
                        /\ Cardinality(calls[c].hdrs) = Cardinality(calls[c].h) + 1
                        /\ calls[c].h \subseteq calls[c].hdrs

\* a token was injected beside another header of the caller
C2_Witness ==
    \E c \in CallIds :
        /\ Live(c) /\ HasResolver(c) /\ calls[c].resolved
        /\ calls[c].h = {<<"Accept", "json">>}
        /\ calls[c].hdrs = {<<"Accept", "json">>, <<"Authorization", "Bearer xyz">>}

\* C4: a verb call with an empty url that has reached the transport client
\* never gets to the adapter, and fails with the MissingURL message, raised
\* by the request interceptor after it logged the request.
C4_Theorem ==
    \A c \in CallIds :
        (Live(c) /\ calls[c].url = "" /\ calls[c].clientCalls > 0) =>
            /\ calls[c].netCalls = 0
            /\ Count(c, {"adapter"}) = 0
            /\ calls[c].pc # "inflight"
            /\ calls[c].pc = "done" =>
                  /\ calls[c].st = "rejected"
                  /\ calls[c].err.message = MissingUrlMessage
            /\ calls[c].st = "rejected" =>
                  /\ calls[c].ev # <<>>
                  /\ calls[c].ev[1].handler = "request"

C4_Witness ==
    \E c \in CallIds :
        /\ calls[c].pc = "done" /\ calls[c].op \in Verbs /\ calls[c].url = ""
        /\ calls[c].err.message = MissingUrlMessage
        /\ calls[c].netCalls = 0

\* C5: every failure that arrives at a response interceptor is logged by it
\* exactly once, at level INFO, under the title 'HTTP call skipped due to a
\* token error' if its message is exactly 'Invalid token' and under 'HTTP
\* Response Error' otherwise; the call then fails for the caller with the
\* message of that failure.
C5_Theorem ==
    \A c \in CallIds :
        Live(c) =>
            /\ \A i \in DOMAIN calls[c].ev :
                  LET e == calls[c].ev[i]
                  IN e.handler = "responseError" =>
                        /\ e.level = "INFO"
                        /\ e.exception = "Invalid token" =>
                              e.title = "HTTP call skipped due to a token error"
                        /\ e.exception # "Invalid token" => e.title = "HTTP Response Error"
                        /\ calls[c].st = "rejected"
                        /\ calls[c].err.message = e.exception
            /\ Count(c, {"responseError"}) =
                  (IF calls[c].st = "rejected" THEN ResponsesPassed(c) ELSE 0)
            /\ (calls[c].pc = "done" /\ calls[c].netCalls > 0 /\ calls[c].st = "rejected") =>
                  Count(c, {"responseError"}) > 0

C5_Witness ==
    \E c \in CallIds :
        /\ calls[c].pc = "done" /\ calls[c].st = "rejected"
        /\ calls[c].err.message = "Invalid token"
        /\ \E i \in DOMAIN calls[c].ev :
              /\ calls[c].ev[i].handler = "responseError"
              /\ calls[c].ev[i].title = "HTTP call skipped due to a token error"

\* C6 (as claimed): within one call every log event of the response
\* interceptor is preceded by the network call of the request, and the
\* network call is preceded by the 'HTTP Request' log event.
C6_Claim ==
    \A c \in CallIds : \A i \in DOMAIN calls[c].ev :
        LET ev == calls[c].ev
        IN /\ ev[i].handler = "responseError" =>
                 \E j \in 1..(i - 1) : ev[j].handler = "adapter"
           /\ ev[i].handler = "adapter" =>
                 \E j \in 1..(i - 1) : ev[j].handler = "request"

\* C6 (amended): within one call the 'HTTP Request' log event precedes the
\* network call and every log event of the response interceptor, and the
\* network call, when there is one, precedes every log event of the
\* response interceptor; a request with an empty url has no network call
\* (its failure is still logged by the response interceptor), a request
\* with a url has its network call before any such log event.
C6_Theorem ==
    \A c \in CallIds : \A i \in DOMAIN calls[c].ev :
        LET ev == calls[c].ev
        IN /\ ev[i].handler = "adapter" =>
                 /\ \E j \in 1..(i - 1) : ev[j].handler = "request"
                 /\ calls[c].url # ""
                 /\ \A j \in 1..(i - 1) : ev[j].handler # "responseError"
           /\ ev[i].handler = "responseError" =>
                 /\ \E j \in 1..(i - 1) : ev[j].handler = "request"
                 /\ calls[c].url # "" => \E j \in 1..(i - 1) : ev[j].handler = "adapter"

\* the failure of a request with an empty url was logged by the response
\* interceptor, and no network call was made
C6_Witness ==
    \E c \in CallIds :
        /\ calls[c].pc = "done" /\ calls[c].url = ""
        /\ Count(c, {"responseError"}) > 0
        /\ Count(c, {"adapter"}) = 0

\* C7: when the token resolver rejects during a verb call, the call fails
\* with that very rejection, the transport client is not called and no log
\* event is produced.
C7_Theorem ==
    \A c \in CallIds :
        (Live(c) /\ calls[c].rejection # NoError) =>
            /\ calls[c].pc = "done"
            /\ calls[c].st = "rejected"
            /\ calls[c].err = calls[c].rejection
            /\ calls[c].err.origin = "tokenResolver"
            /\ calls[c].clientCalls = 0
            /\ calls[c].netCalls = 0
            /\ calls[c].ev = <<>>

C7_Witness ==
    \E c \in CallIds :
        /\ calls[c].pc = "done" /\ calls[c].op \in Verbs
        /\ calls[c].rejection = ResolverError("Invalid token")
        /\ calls[c].err = ResolverError("Invalid token")

\* C8: a facade given a transport client uses it with its adapter as it is,
\* whatever the flags; otherwise its adapter is the base adapter, wrapped by
\* the cache enhancer iff enableCache, and that wrapped by the retry enhancer
\* iff enableRetry (retry outermost); both flags default to false.
C8_Theorem ==
    \A f \in Facades :
        facades[f].built =>
            LET o == facades[f].opts
                a == clients[facades[f].client].adapter
                cache == o.enableCache = "true"
                retry == o.enableRetry = "true"
            IN /\ o.enableCache = "undefined" => facades[f].enableCache = "false"
               /\ o.enableRetry = "undefined" => facades[f].enableRetry = "false"
               /\ o.client # "undefined" =>
                     /\ facades[f].client = o.client
                     /\ a = <<"custom">>
               /\ o.client = "undefined" =>
                     /\ facades[f].client = f
                     /\ a[1] = "base"
                     /\ Len(a) = 1 + (IF cache THEN 1 ELSE 0) + (IF retry THEN 1 ELSE 0)
                     /\ cache => a[2] = "cache"
                     /\ retry => a[Len(a)] = "retry"

C8_Witness ==
    /\ facades["A"].built
    /\ facades["A"].opts.client = "undefined"
    /\ facades["A"].opts.enableCache = "true"
    /\ facades["A"].opts.enableRetry = "true"
    /\ clients["A"].adapter = <<"base", "cache", "retry">>
    /\ facades["B"].built
    /\ facades["B"].opts.client = Prebuilt
    /\ facades["B"].opts.enableCache = "true"

\* C9 (as claimed): a finished verb call that reached the request
\* interceptor has produced exactly one 'HTTP Request' log event, no other
\* log event if it succeeded and exactly one error log event if it failed,
\* also when its transport client was given to more than one facade.
C9_Claim ==
    \A c \in CallIds :
        (calls[c].pc = "done" /\ calls[c].clientCalls > 0) =>
            /\ Count(c, {"request"}) = 1
            /\ Count(c, {"requestError", "responseError"}) =
                  (IF calls[c].st = "fulfilled" THEN 0 ELSE 1)

\* C9 (amended): the above holds for a transport client used by a single
\* facade.  Every construction registers one more pair of interceptors on
\* the client it is given, so a request through a client given to k
\* facades with a url produces k 'HTTP Request' log events, no other log
\* event if it succeeds and k error log events if it fails; with an empty
\* url it produces one 'HTTP Request' log event and 2k - 1 error log events.
C9_Theorem ==
    \A c \in CallIds :
        (calls[c].pc = "done" /\ calls[c].clientCalls > 0) =>
            LET k == Sharing(c)
            IN /\ k >= 1
               /\ Count(c, {"request"}) = (IF calls[c].url = "" THEN 1 ELSE k)
               /\ Count(c, {"requestError", "responseError"}) =
                     (IF calls[c].st = "fulfilled" THEN 0
                      ELSE IF calls[c].url = "" THEN 2 * k - 1 ELSE k)
               /\ calls[c].url = "" => calls[c].st = "rejected"

\* a failed request through a client given to two facades: two of each
C9_Witness ==
    \E c \in CallIds :
        /\ calls[c].pc = "done" /\ calls[c].st = "rejected" /\ calls[c].url # ""
        /\ Sharing(c) = 2
        /\ Count(c, {"request"}) = 2
        /\ Count(c, {"responseError"}) = 2

\* C10 (as claimed): the caller's config object is left as the caller made
\* it, and with a token resolver configured no verb call that is given this
\* config object (made without an Authorization entry) fails with the
\* configuration-conflict error, each invoking the resolver once.
C10_Claim ==
    /\ cfg = cfg0
    /\ \A c \in CallIds :
          (Live(c) /\ calls[c].op \in Verbs /\ calls[c].useCfg /\ HasResolver(c)
             /\ ~HasKey(cfg0.headers, "Authorization")) =>
                /\ calls[c].err # NewError(ConflictMessage)
                /\ calls[c].resolverCalls = 1

\* C3 (as claimed): the requestId of every error log event of the response
\* interceptor is the requestId of an 'HTTP Request' log event of the same
\* request.
C3_Claim ==
    \A c \in CallIds : \A i \in DOMAIN calls[c].ev :
        LET ev == calls[c].ev
        IN ev[i].handler = "responseError" =>
              \E j \in DOMAIN ev :
                  /\ ev[j].handler = "request"
                  /\ ev[j].requestId = ev[i].requestId

=============================================================================
